---------------------------- MODULE Spec2Model ----------------------------
(***************************************************************************)
(* A model of rsqlite3's table registry (src/src/database/mod.rs) and of   *)
(* the pure validation and comparison functions of its AST                 *)
(* (src/src/ast.rs).                                                       *)
(*                                                                         *)
(* Database<T, F> holds a CHashMap<String, T> and a Factory.  Every public *)
(* method takes &self, so any number of threads may be inside create_table *)
(* and insert at once; each line of a method that touches the registry or  *)
(* calls a collaborator is one atomic step of the calling thread here.     *)
(***************************************************************************)
EXTENDS Integers, Sequences, FiniteSets, TLC

\* ---------------------------------------------------------------- bounds
NumThreads == 2
NumNames == 2
MaxCalls == 3

Threads == 1..NumThreads
TableNames == 1..NumNames
\* The rows handed to Database::insert are opaque to it: two different ones.
Rows == {"r1", "r2"}

\* Factory::new_table and Table::insert are trait methods implemented
\* outside this crate: all the model knows is the Result they return.
FactoryErrs == {"factory_err"}
TableErrs == {"table_err"}
RecordIDs == {"rid"}

\* Option<T>: None; Some(table k) is <<k>>, k the number of the new_table call that
\* built it.
NoTable == <<>>
SomeTable(k) == <<k>>

VARIABLES
    debug,      \* TRUE: the build has debug_assertions on (debug_assert! is live)
    tables,     \* Database.tables: the set of occupied buckets, each <<name, table>>
    nextTable,  \* how many tables the Factory has built so far
    inFactory,  \* the threads that are executing Factory::new_table
    pc,         \* pc[t]: where thread t stands
    name,       \* name[t]: the table name of t's current call
    row,        \* row[t]: the row of t's current Database::insert
    tbl,        \* tbl[t]: create_table's new_table / insert's table
    inv,        \* inv[t]: the Table::insert invocations of t's current call
    before,     \* before[t]: the registry when t's current call started
    log,        \* the calls that have returned (or panicked), in that order
    astIn,      \* the input of the AST function under check
    astOut      \* its result

dbVars == <<debug, tables, nextTable, inFactory, pc, name, row, tbl, inv, before, log>>
astVars == <<astIn, astOut>>
vars == <<debug, tables, nextTable, inFactory, pc, name, row, tbl, inv, before, log,
          astIn, astOut>>

\* ------------------------------------------------------------ Result values
\* Ok(()), the two errors the Database formats itself (line 60, line 71), an
\* error string handed on from a collaborator, and a panic.
Ok == [kind |-> "ok", name |-> 0, msg |-> ""]
ErrAlreadyExists(n) == [kind |-> "already_exists", name |-> n, msg |-> ""]
ErrNoSuchTable(n) == [kind |-> "no_such_table", name |-> n, msg |-> ""]
ErrFrom(msg) == [kind |-> "err", name |-> 0, msg |-> msg]
Panic == [kind |-> "panic", name |-> 0, msg |-> ""]

\* ------------------------------------------------------------ the registry
\* The buckets that hold key n.  CHashMap::insert_new does not look for an
\* existing key, so there can be more than one.
Entries(n) == {e \in tables : e[1] = n}

\* A lookup with its answer negated.
contains_key_negated(n) == Entries(n) = {}

\* CHashMap::contains_key / CHashMap::get(..).is_some()
contains_key(n) == Entries(n) # {}

\* An insertion that rebuilds the map from the new pair alone.
insert_new_clobber(n, tb) == {<<n, tb>>}

\* CHashMap::insert_new after its debug assertion: the pair goes into a free
\* bucket, whatever the other buckets hold.
insert_new(n, tb) == tables \cup {<<n, tb>>}

\* ------------------------------------------------------------ calls
AllIdle == \A t \in Threads : pc[t] \in {"idle", "panicked"}

InProgress == {t \in Threads : pc[t] \notin {"idle", "panicked"}}

\* Threads that are not inside a call hold no state and are interchangeable: the
\* next call is made by the lowest of them.
CanCall(t) ==
    /\ pc[t] = "idle"
    /\ \A u \in Threads : pc[u] = "idle" => t <= u
    /\ Len(log) + Cardinality(InProgress) < MaxCalls

CreatePcs == {"ct_contains_key", "ct_new_table", "ct_insert_new", "ct_find_free",
              "ct_expand"}

InsertPcs == {"ins_is_none", "ins_get_unwrap", "ins_table_insert"}

\* A call of thread t ends, with a return value r or with a panic (which ends the
\* thread): its locals are dropped, and the call is written to the log with the
\* table it built or used, the Table::insert invocations it made, whether its
\* name was registered when it started (wasReg) and is when it ends (isReg),
\* whether the registry it leaves (after) is the one it found (same), and how many
\* pairs the registry gained, from any thread, while the call ran (added).
Finish(t, r, tb, invs, after) ==
    /\ pc' = [pc EXCEPT ![t] = IF r.kind = "panic" THEN "panicked" ELSE "idle"]
    /\ name' = [name EXCEPT ![t] = 1]
    /\ row' = [row EXCEPT ![t] = "r1"]
    /\ tbl' = [tbl EXCEPT ![t] = NoTable]
    /\ inv' = [inv EXCEPT ![t] = <<>>]
    /\ before' = [before EXCEPT ![t] = {}]
    /\ log' = Append(log, [op |-> IF pc[t] \in CreatePcs THEN "create_table" ELSE "insert",
                           name |-> name[t], row |-> row[t], ret |-> r, table |-> tb,
                           inv |-> invs, wasReg |-> \E e \in before[t] : e[1] = name[t],
                           isReg |-> \E e \in after : e[1] = name[t],
                           same |-> (after = before[t]),
                           added |-> Cardinality(after \ before[t])])

\* Database::create_table is called (line 57-58).
CreateTable(t) ==
    /\ CanCall(t)
    /\ \E n \in TableNames : name' = [name EXCEPT ![t] = n]
    /\ pc' = [pc EXCEPT ![t] = "ct_contains_key"]
    /\ before' = [before EXCEPT ![t] = tables]
    /\ UNCHANGED <<debug, tables, nextTable, inFactory, row, tbl, inv, log, astVars>>

\* if self.tables.contains_key(&table_name) { return Err(..) } (line 59-61);
\* otherwise the thread enters self.factory.new_table(schema) (line 63).
CtContainsKey(t) ==
    /\ pc[t] = "ct_contains_key"
    /\ IF contains_key(name[t])
       THEN /\ Finish(t, ErrAlreadyExists(name[t]), NoTable, inv[t], tables)
            /\ UNCHANGED inFactory
       ELSE /\ pc' = [pc EXCEPT ![t] = "ct_new_table"]
            /\ inFactory' = inFactory \cup {t}
            /\ UNCHANGED <<name, row, tbl, inv, before, log>>
    /\ UNCHANGED <<debug, tables, nextTable, astVars>>

\* A create_table that claims the name when the Factory returns, whatever it
\* returned, and leaves the claim behind on Err.
FactoryNewTableClaiming(t) ==
    /\ pc[t] = "ct_new_table"
    /\ inFactory' = inFactory \ {t}
    /\ tables' = tables \cup {<<name[t], NoTable>>}
    /\ \/ /\ nextTable' = nextTable + 1
          /\ tbl' = [tbl EXCEPT ![t] = SomeTable(nextTable + 1)]
          /\ pc' = [pc EXCEPT ![t] = IF debug THEN "ct_insert_new" ELSE "ct_find_free"]
          /\ UNCHANGED <<name, row, inv, before, log>>
       \/ /\ \E msg \in FactoryErrs :
                Finish(t, ErrFrom(msg), NoTable, inv[t], tables \cup {<<name[t], NoTable>>})
          /\ UNCHANGED nextTable
    /\ UNCHANGED <<debug, astVars>>

\* Factory::new_table returns: Ok(a table nobody else holds), or Err(msg), which
\* the ? of line 63 returns to the caller.  On Ok the thread goes on to insert_new
\* (line 64), which starts with a debug_assert! in a debug build and with the
\* search for a free bucket in a release build.
FactoryNewTable(t) ==
    /\ pc[t] = "ct_new_table"
    /\ inFactory' = inFactory \ {t}
    /\ \/ /\ nextTable' = nextTable + 1
          /\ tbl' = [tbl EXCEPT ![t] = SomeTable(nextTable + 1)]
          /\ pc' = [pc EXCEPT ![t] = IF debug THEN "ct_insert_new" ELSE "ct_find_free"]
          /\ UNCHANGED <<name, row, inv, before, log>>
       \/ /\ \E msg \in FactoryErrs : Finish(t, ErrFrom(msg), NoTable, inv[t], tables)
          /\ UNCHANGED nextTable
    /\ UNCHANGED <<debug, tables, astVars>>

\* self.tables.insert_new(table_name, new_table) (line 64), first half, in a
\* debug build only: debug_assert!(!self.contains_key(&key)).
InsertNewAssert(t) ==
    /\ pc[t] = "ct_insert_new"
    /\ IF contains_key(name[t])
       THEN Finish(t, Panic, tbl[t], inv[t], tables)
       ELSE /\ pc' = [pc EXCEPT ![t] = "ct_find_free"]
            /\ UNCHANGED <<name, row, tbl, inv, before, log>>
    /\ UNCHANGED <<debug, tables, nextTable, inFactory, astVars>>

\* insert_new, second half: the pair is written into a free bucket; then Ok(())
\* (line 66).
InsertNewFindFree(t) ==
    /\ pc[t] = "ct_find_free"
    /\ tables' = insert_new(name[t], tbl[t])
    /\ Finish(t, Ok, tbl[t], inv[t], insert_new(name[t], tbl[t]))
    /\ UNCHANGED <<debug, nextTable, inFactory, astVars>>

\* Database::insert is called (line 69).
DbInsert(t) ==
    /\ CanCall(t)
    /\ \E n \in TableNames : name' = [name EXCEPT ![t] = n]
    /\ \E r \in Rows : row' = [row EXCEPT ![t] = r]
    /\ pc' = [pc EXCEPT ![t] = "ins_is_none"]
    /\ before' = [before EXCEPT ![t] = tables]
    /\ UNCHANGED <<debug, tables, nextTable, inFactory, tbl, inv, log, astVars>>

\* if self.tables.get(table_name).is_none() { return Err(..) } (line 70-72)
InsGetIsNone(t) ==
    /\ pc[t] = "ins_is_none"
    /\ IF ~contains_key(name[t])
       THEN Finish(t, ErrNoSuchTable(name[t]), NoTable, inv[t], tables)
       ELSE /\ pc' = [pc EXCEPT ![t] = "ins_get_unwrap"]
            /\ UNCHANGED <<name, row, tbl, inv, before, log>>
    /\ UNCHANGED <<debug, tables, nextTable, inFactory, astVars>>

\* let table = self.tables.get(table_name).unwrap(); (line 74): a second lookup,
\* which finds one of the buckets that hold the key, and panics on None.
InsGetUnwrap(t) ==
    /\ pc[t] = "ins_get_unwrap"
    /\ IF ~contains_key(name[t])
       THEN Finish(t, Panic, NoTable, inv[t], tables)
       ELSE /\ \E e \in Entries(name[t]) : tbl' = [tbl EXCEPT ![t] = e[2]]
            /\ pc' = [pc EXCEPT ![t] = "ins_table_insert"]
            /\ UNCHANGED <<name, row, inv, before, log>>
    /\ UNCHANGED <<debug, tables, nextTable, inFactory, astVars>>

\* An insert that drops the table's error together with the RecordID.
InsertResultSwallowed(r) == Ok

\* What insert returns for what Table::insert returned (line 75-77): the
\* RecordID is dropped, an error goes through ? as it is.
InsertResult(r) == IF r.kind = "ok" THEN Ok ELSE r

\* What Table::insert may return: Ok(RecordID) or Err(String).
TableResults == {[kind |-> "ok", name |-> 0, msg |-> rid] : rid \in RecordIDs}
                    \cup {ErrFrom(msg) : msg \in TableErrs}

\* The Table::insert invocations of line 75: one, on the table found at line 74,
\* with the caller's row; r is what it returned.
TableInsertCalls(t, r) == <<[table |-> tbl[t], row |-> row[t], result |-> r]>>

\* An insert that drops the table from the registry when Table::insert fails.
TableInsertEvicting(t) ==
    /\ pc[t] = "ins_table_insert"
    /\ \E r \in TableResults :
          LET left == IF r.kind = "ok" THEN tables ELSE tables \ {<<name[t], tbl[t]>>} IN
          /\ tables' = left
          /\ Finish(t, InsertResult(r), tbl[t], inv[t] \o TableInsertCalls(t, r), left)
    /\ UNCHANGED <<debug, nextTable, inFactory, astVars>>

\* let record_id = table.insert(row)?; Ok(()) (line 75-77)
TableInsert(t) ==
    /\ pc[t] = "ins_table_insert"
    /\ \E r \in TableResults :
          Finish(t, InsertResult(r), tbl[t], inv[t] \o TableInsertCalls(t, r), tables)
    /\ UNCHANGED <<debug, tables, nextTable, inFactory, astVars>>

\* ------------------------------------------------------------ ast.rs
MaxColumns == 3
MaxValues == 3
IntBound == 2

ColumnNameSet == {"henry", "james", "anne"}
SchemaNames == {"kings"}

\* Sequences over S of length at most n.
SeqsUpTo(S, n) == UNION {[1..k -> S] : k \in 0..n}

\* enum Value { Integer(i64), Null } (line 21-25)
Integer(i) == [tag |-> "Integer", i |-> i]
Null == [tag |-> "Null", i |-> 0]
Values == {Integer(i) : i \in (0 - IntBound)..IntBound} \cup {Null}

\* i64's cmp (line 30)
IntCmp(a, b) == IF a < b THEN "Less" ELSE IF a = b THEN "Equal" ELSE "Greater"

\* Nulls first instead of last.
NullVsIntegerLess == "Less"

\* (Value::Null, Value::Integer(_)) => Ordering::Greater (line 33)
NullVsInteger == "Greater"

\* impl Ord for Value: cmp (line 27-36)
cmp(self, other) ==
    CASE self.tag = "Integer" /\ other.tag = "Integer" -> IntCmp(self.i, other.i)
      [] self.tag = "Null" /\ other.tag = "Null" -> "Equal"
      [] self.tag = "Integer" /\ other.tag = "Null" -> "Less"
      [] self.tag = "Null" /\ other.tag = "Integer" -> NullVsInteger

\* struct Column (line 89-93)
Columns == [name : ColumnNameSet, is_primary_key : BOOLEAN]

\* The Result<(), String> of the two validate functions: Ok(()) or the formatted
\* message, kept as its format and its arguments.
AstOk == [kind |-> "ok", arg |-> "", nvalues |-> 0, ncolumns |-> 0]
ErrDuplicateColumn(c) ==
    [kind |-> "duplicate column name", arg |-> c, nvalues |-> 0, ncolumns |-> 0]
ErrPrimaryKeys(table) ==
    [kind |-> "more than one primary key", arg |-> table, nvalues |-> 0, ncolumns |-> 0]
ErrArity(nv, nc) == [kind |-> "values for columns", arg |-> "", nvalues |-> nv, ncolumns |-> nc]

\* A check that forgets whether a primary key was seen before.
SecondPrimaryKeyAny(c, has_primary_key) == c.is_primary_key

\* if c.is_primary_key && has_primary_key (line 135)
SecondPrimaryKey(c, has_primary_key) == c.is_primary_key /\ has_primary_key

\* The loop with its two checks in the other order: primary keys first.
RECURSIVE ValidateFromKeysFirst(_, _, _, _)
ValidateFromKeysFirst(schema, i, column_names, has_primary_key) ==
    IF i > Len(schema.columns) THEN AstOk
    ELSE LET c == schema.columns[i] IN
         IF SecondPrimaryKey(c, has_primary_key) THEN ErrPrimaryKeys(schema.name)
         ELSE IF c.name \in column_names THEN ErrDuplicateColumn(c.name)
         ELSE ValidateFromKeysFirst(schema, i + 1, column_names \cup {c.name},
                                    has_primary_key \/ c.is_primary_key)

\* The loop of TableSchema::validate from column i on (line 131-146), with the
\* names seen so far and whether a primary key was seen.
RECURSIVE ValidateFrom(_, _, _, _)
ValidateFrom(schema, i, column_names, has_primary_key) ==
    IF i > Len(schema.columns) THEN AstOk
    ELSE LET c == schema.columns[i] IN
         IF c.name \in column_names THEN ErrDuplicateColumn(c.name)
         ELSE IF SecondPrimaryKey(c, has_primary_key) THEN ErrPrimaryKeys(schema.name)
         ELSE ValidateFrom(schema, i + 1, column_names \cup {c.name},
                           has_primary_key \/ c.is_primary_key)

\* TableSchema::validate (line 128-147)
TableSchemaValidate(schema) == ValidateFrom(schema, 1, {}, FALSE)

\* if self.values.len() != column_names.len() (line 197)
ArityMismatch(values, column_names) == Len(values) # Len(column_names)

\* The message with its two counts in the other order.
ArityMessageSwapped(values, column_names) == ErrArity(Len(column_names), Len(values))

\* format!("{} values for {} columns", self.values.len(), column_names.len())
\* (line 198-202)
ArityMessage(values, column_names) == ErrArity(Len(values), Len(column_names))

\* Insertion::validate (line 192-208): the check runs only on Some(column_names).
InsertionValidate(ins) ==
    IF ins.column_names.some
    THEN IF ArityMismatch(ins.values, ins.column_names.names)
         THEN ArityMessage(ins.values, ins.column_names.names)
         ELSE AstOk
    ELSE AstOk

NoAst == [kind |-> "none"]

SchemaInputs ==
    {[kind |-> "schema", schema |-> [name |-> n, columns |-> cs]] :
        n \in SchemaNames, cs \in SeqsUpTo(Columns, MaxColumns)}

OptionNames ==
    {[some |-> FALSE, names |-> <<>>]}
        \cup {[some |-> TRUE, names |-> ns] : ns \in SeqsUpTo({"henry", "james"}, MaxValues)}

InsertionInputs ==
    {[kind |-> "insertion", ins |-> [table_name |-> "eggs", column_names |-> o, values |-> vs]] :
        o \in OptionNames, vs \in SeqsUpTo({Integer(1), Null}, MaxValues)}

ValueInputs == {[kind |-> "values", vals |-> vs] : vs \in [1..3 -> Values]}

\* TableSchema::validate is applied to the schema drawn.
ValidateSchema ==
    /\ astIn.kind = "schema"
    /\ astOut = NoAst
    /\ astOut' = [kind |-> "schema", result |-> TableSchemaValidate(astIn.schema)]
    /\ UNCHANGED <<astIn, dbVars>>

\* Insertion::validate is applied to the insertion drawn.
ValidateInsertion ==
    /\ astIn.kind = "insertion"
    /\ astOut = NoAst
    /\ astOut' = [kind |-> "insertion", result |-> InsertionValidate(astIn.ins)]
    /\ UNCHANGED <<astIn, dbVars>>

\* Value::cmp is applied to every pair of the three values drawn.
CompareValues ==
    /\ astIn.kind = "values"
    /\ astOut = NoAst
    /\ astOut' = [kind |-> "values",
                  result |-> [p \in (1..3) \X (1..3) |-> cmp(astIn.vals[p[1]], astIn.vals[p[2]])]]
    /\ UNCHANGED <<astIn, dbVars>>

\* Database::new (line 48-54): an empty registry; no thread has called yet.
Init ==
    /\ debug \in BOOLEAN
    /\ tables = {}
    /\ nextTable = 0
    /\ inFactory = {}
    /\ pc = [t \in Threads |-> "idle"]
    /\ name = [t \in Threads |-> 1]
    /\ row = [t \in Threads |-> "r1"]
    /\ tbl = [t \in Threads |-> NoTable]
    /\ inv = [t \in Threads |-> <<>>]
    /\ before = [t \in Threads |-> {}]
    /\ log = <<>>
    /\ astIn = NoAst
    /\ astOut = NoAst

Step(t) ==
    \/ CtContainsKey(t)
    \/ FactoryNewTable(t)
    \/ InsertNewAssert(t)
    \/ InsertNewFindFree(t)
    \/ InsGetIsNone(t)
    \/ InsGetUnwrap(t)
    \/ TableInsert(t)

\* Any number of threads inside the Database at once.
Next == \E t \in Threads : CreateTable(t) \/ DbInsert(t) \/ Step(t)

Spec == Init /\ [][Next]_vars

\* One call at a time: a call starts only when no other is in progress.
NextSeq == \E t \in Threads : (AllIdle /\ (CreateTable(t) \/ DbInsert(t))) \/ Step(t)

SpecSeq == Init /\ [][NextSeq]_vars

\* ------------------------------------------------------------ blocking
\* What the calls wait for.  The CHashMap is a reader-writer lock around a vector
\* of buckets, each under a reader-writer lock of its own.  A lookup takes the
\* outer lock and the bucket's for reading; contains_key and the get of line 70
\* give both back at once, the get of line 74 keeps them in `table` until
\* Table::insert has returned (line 75).  insert_new takes the outer lock for
\* reading, write-locks the buckets it probes for a free one, and, when the load
\* factor is crossed, gives the outer lock back and takes it for writing to grow
\* the map.

\* A set of guards that are never given back once a Table::insert was made.
ReadGuardsLeaked ==
    {u \in Threads : \/ pc[u] = "ins_table_insert"
                     \/ \E i \in DOMAIN log : log[i].op = "insert" /\ log[i].inv # <<>>}

\* The threads that hold the guard of line 74: those inside Table::insert.
ReadGuards == {u \in Threads : pc[u] = "ins_table_insert"}

\* The threads that hold the outer lock for reading: those with a guard, and
\* those inside insert_new that have not written their pair yet.
TableReaders == ReadGuards \cup {u \in Threads : pc[u] = "ct_find_free"}

\* The threads inside insert_new that wait for the outer lock for writing.
WritersWaiting == {u \in Threads : pc[u] = "ct_expand"}

\* The outer lock is given for reading when no writer is queued for it.
CanRead == WritersWaiting = {}

\* insert_new's probe gets its buckets for writing when no guard holds one of
\* them for reading; which buckets a probe walks is the hash's business, and the
\* probe is taken to walk into every guarded one.
CanFindFree == ReadGuards = {}

\* The outer lock is given for writing when nobody else reads through it.
CanWrite(t) == TableReaders \ {t} = {}

LiveCtContainsKey(t) == CanRead /\ CtContainsKey(t)

\* The Factory returns; on Ok, insert_new in a release build starts by taking
\* the outer lock for reading.
LiveFactoryNewTable(t) ==
    /\ FactoryNewTable(t)
    /\ pc'[t] = "ct_find_free" => CanRead

LiveInsertNewAssert(t) == CanRead /\ InsertNewAssert(t)

\* insert_new writes its pair and the load factor is not crossed.
LiveInsertNewFindFree(t) == CanFindFree /\ InsertNewFindFree(t)

\* insert_new writes its pair and the load factor is crossed (the model does not
\* count buckets: it may be at any insertion): the thread gives the outer lock
\* back and queues for it as a writer.
LiveInsertNewCrowded(t) ==
    /\ pc[t] = "ct_find_free"
    /\ CanFindFree
    /\ tables' = insert_new(name[t], tbl[t])
    /\ pc' = [pc EXCEPT ![t] = "ct_expand"]
    /\ UNCHANGED <<debug, nextTable, inFactory, name, row, tbl, inv, before, log, astVars>>

\* The writer gets the outer lock, grows the map, and create_table returns
\* Ok(()) (line 66).
LiveInsertNewExpand(t) ==
    /\ pc[t] = "ct_expand"
    /\ CanWrite(t)
    /\ Finish(t, Ok, tbl[t], inv[t], tables)
    /\ UNCHANGED <<debug, tables, nextTable, inFactory, astVars>>

LiveInsGetIsNone(t) == CanRead /\ InsGetIsNone(t)

LiveInsGetUnwrap(t) == CanRead /\ InsGetUnwrap(t)

LiveStep(t) ==
    \/ LiveCtContainsKey(t)
    \/ LiveFactoryNewTable(t)
    \/ LiveInsertNewAssert(t)
    \/ LiveInsertNewFindFree(t)
    \/ LiveInsertNewCrowded(t)
    \/ LiveInsertNewExpand(t)
    \/ LiveInsGetIsNone(t)
    \/ LiveInsGetUnwrap(t)
    \/ TableInsert(t)

NextLive == \E t \in Threads : CreateTable(t) \/ DbInsert(t) \/ LiveStep(t)

\* Every thread inside a call is scheduled again and again, and the Factory and
\* the Table return; whether a thread makes another call is up to it.
Fairness == \A t \in Threads : WF_vars(LiveStep(t))

SpecLive == Init /\ [][NextLive]_vars /\ Fairness

\* The functions of ast.rs, each applied to an input drawn from its bounded domain.
InitAst ==
    /\ debug = FALSE
    /\ tables = {}
    /\ nextTable = 0
    /\ inFactory = {}
    /\ pc = [t \in Threads |-> "idle"]
    /\ name = [t \in Threads |-> 1]
    /\ row = [t \in Threads |-> "r1"]
    /\ tbl = [t \in Threads |-> NoTable]
    /\ inv = [t \in Threads |-> <<>>]
    /\ before = [t \in Threads |-> {}]
    /\ log = <<>>
    /\ astIn \in SchemaInputs \cup InsertionInputs \cup ValueInputs
    /\ astOut = NoAst

NextAst == ValidateSchema \/ ValidateInsertion \/ CompareValues

SpecAst == InitAst /\ [][NextAst]_vars

\* ------------------------------------------------------------ the claims
Creates == {i \in DOMAIN log : log[i].op = "create_table"}
Inserts == {i \in DOMAIN log : log[i].op = "insert"}
OkCreates(n) == {i \in Creates : log[i].name = n /\ log[i].ret = Ok}

\* Every Factory::new_table call so far returned Ok.
FactorySucceeded == \A i \in Creates : log[i].ret.kind # "err"

\* The calls made so far are create_table calls only, all of them returned or
\* panicked.
OnlyCreates == AllIdle /\ Creates = DOMAIN log

\* C1: when N >= 2 create_table calls with the same table name have all ended
\* (the Factory succeeding), exactly one of them returned Ok and the other N-1
\* returned the 'already exists' error, whatever the interleaving.
C1_OneWinner ==
    (/\ OnlyCreates
     /\ Len(log) >= 2
     /\ FactorySucceeded
     /\ \A i \in DOMAIN log : log[i].name = log[1].name)
    => /\ Cardinality({i \in DOMAIN log : log[i].ret = Ok}) = 1
       /\ Cardinality({i \in DOMAIN log : log[i].ret = ErrAlreadyExists(log[1].name)})
              = Len(log) - 1

\* The first create_table call for the name of call i.
IsFirstCreate(i) == \A j \in Creates : j < i => log[j].name # log[i].name

\* C2: in a sequential series of calls with a succeeding Factory, a create_table
\* call returns Ok exactly when it is the first for its name, every later one
\* returns 'already exists' and leaves the registry as it found it, and the name
\* stays mapped to the one table the first call built.
C2_FirstCreateWins ==
    FactorySucceeded =>
        \A i \in Creates :
            /\ log[i].ret = Ok <=> IsFirstCreate(i)
            /\ ~IsFirstCreate(i) =>
                   /\ log[i].ret = ErrAlreadyExists(log[i].name)
                   /\ log[i].same
            /\ IsFirstCreate(i) => Entries(log[i].name) = {<<log[i].name, log[i].table>>}

\* Three create_table calls for one name have returned: Ok, then twice 'already
\* exists'.
C2_Witness ==
    /\ Len(log) = 3
    /\ Creates = DOMAIN log
    /\ \A i \in DOMAIN log : log[i].name = 1
    /\ log[1].ret = Ok
    /\ log[2].ret = ErrAlreadyExists(1)
    /\ log[3].ret = ErrAlreadyExists(1)
    /\ Cardinality(tables) = 1

\* C3: when N concurrent create_table calls with pairwise distinct names have all
\* ended (the Factory succeeding), all returned Ok and the registry holds exactly
\* those N names, each mapped to the one table built for it.
C3_DistinctNamesAllSucceed ==
    (/\ OnlyCreates
     /\ Len(log) >= 2
     /\ FactorySucceeded
     /\ \A i, j \in DOMAIN log : i # j => log[i].name # log[j].name)
    => /\ \A i \in DOMAIN log : log[i].ret = Ok
       /\ tables = {<<log[i].name, log[i].table>> : i \in DOMAIN log}
       /\ Cardinality(tables) = Len(log)
       /\ Cardinality({log[i].table : i \in DOMAIN log}) = Len(log)

\* As many create_table calls as there are threads, for pairwise distinct names,
\* have ended with Ok, and the one that ended last had started before any of them
\* inserted: the calls overlapped.
C3_Witness ==
    /\ OnlyCreates
    /\ Len(log) = NumThreads
    /\ \A i, j \in DOMAIN log : i # j => log[i].name # log[j].name
    /\ \A i \in DOMAIN log : log[i].ret = Ok
    /\ log[Len(log)].added = NumThreads
    /\ Cardinality(tables) = NumThreads

\* C4: at most one thread is executing Factory::new_table.
C4_FactorySerialized == Cardinality(inFactory) <= 1

\* C5: Database::insert returns 'no such table', without invoking Table::insert,
\* whenever the name is not registered; whenever it is, it invokes Table::insert
\* once, on a table registered under the name and with the row given, and returns
\* Ok(()) if that returned Ok and its error unchanged otherwise.
C5_InsertDelegates ==
    \A i \in Inserts :
        LET c == log[i] IN
        /\ ~c.isReg => c.ret = ErrNoSuchTable(c.name)
        /\ c.wasReg => c.ret.kind # "no_such_table"
        /\ c.ret.kind = "no_such_table" =>
               /\ c.ret = ErrNoSuchTable(c.name)
               /\ ~c.wasReg
               /\ c.inv = <<>>
        /\ c.ret.kind # "no_such_table" =>
               /\ Len(c.inv) = 1
               /\ c.inv[1].row = c.row
               /\ <<c.name, c.inv[1].table>> \in tables
               /\ c.ret = Ok <=> c.inv[1].result.kind = "ok"
               /\ c.inv[1].result.kind # "ok" => c.ret = c.inv[1].result

\* Two insert calls have returned: one for an unregistered name, with 'no such
\* table', and one for a registered name, with the error that Table::insert
\* returned for its row.
C5_Witness ==
    /\ \E i \in Inserts : log[i].ret = ErrNoSuchTable(log[i].name) /\ log[i].inv = <<>>
    /\ \E i \in Inserts :
           /\ log[i].ret = ErrFrom("table_err")
           /\ log[i].row = "r2"
           /\ Len(log[i].inv) = 1
           /\ log[i].inv[1].row = "r2"

\* The column names of a schema are pairwise distinct.
NamesDistinct(cols) == \A i, j \in DOMAIN cols : i # j => cols[i].name # cols[j].name

\* At most one column of a schema is marked primary key.
AtMostOnePrimaryKey(cols) == Cardinality({i \in DOMAIN cols : cols[i].is_primary_key}) <= 1

\* C6: TableSchema::validate returns Ok exactly for the column lists whose names
\* are pairwise distinct and of which at most one column is a primary key, and
\* an error for every other.
C6_SchemaValidIff ==
    astOut.kind = "schema" =>
        LET cols == astIn.schema.columns IN
        /\ astOut.result = AstOk <=> (NamesDistinct(cols) /\ AtMostOnePrimaryKey(cols))
        /\ astOut.result # AstOk =>
               astOut.result.kind \in {"duplicate column name", "more than one primary key"}

\* Three columns of different names, the second and the third primary keys, were
\* rejected.
C6_Witness ==
    /\ astOut.kind = "schema"
    /\ Len(astIn.schema.columns) = 3
    /\ NamesDistinct(astIn.schema.columns)
    /\ ~astIn.schema.columns[1].is_primary_key
    /\ astIn.schema.columns[2].is_primary_key
    /\ astIn.schema.columns[3].is_primary_key
    /\ astOut.result = ErrPrimaryKeys(astIn.schema.name)

\* C7: Insertion::validate returns an error exactly when column_names is present
\* and the number of values differs from the number of column names; the error
\* carries the number of values, then the number of columns; without
\* column_names it returns Ok for any number of values.
C7_InsertionArity ==
    astOut.kind = "insertion" =>
        LET ins == astIn.ins
            nv == Len(ins.values)
            nc == Len(ins.column_names.names)
        IN  /\ astOut.result # AstOk <=> (ins.column_names.some /\ nv # nc)
            /\ astOut.result # AstOk => astOut.result = ErrArity(nv, nc)
            /\ ~ins.column_names.some => astOut.result = AstOk

\* Two values for one column name were rejected as "2 values for 1 columns".
C7_Witness ==
    /\ astOut.kind = "insertion"
    /\ astIn.ins.column_names.some
    /\ Len(astIn.ins.column_names.names) = 1
    /\ Len(astIn.ins.values) = 2
    /\ astOut.result = ErrArity(2, 1)

\* C8: Value::cmp orders Integers as their numbers, puts every Integer strictly
\* below Null and makes Null equal to Null; over the values drawn it is
\* antisymmetric, transitive and total, and Equal exactly on equal values.
C8_ValueTotalOrder ==
    astOut.kind = "values" =>
        LET v == astIn.vals
            r == astOut.result
        IN  \A i, j, k \in 1..3 :
                /\ r[<<i, j>>] \in {"Less", "Equal", "Greater"}
                /\ (v[i].tag = "Integer" /\ v[j].tag = "Integer") =>
                       /\ r[<<i, j>>] = "Less" <=> v[i].i < v[j].i
                       /\ r[<<i, j>>] = "Greater" <=> v[i].i > v[j].i
                /\ (v[i].tag = "Integer" /\ v[j].tag = "Null") => r[<<i, j>>] = "Less"
                /\ (v[i].tag = "Null" /\ v[j].tag = "Null") => r[<<i, j>>] = "Equal"
                /\ r[<<i, j>>] = "Less" <=> r[<<j, i>>] = "Greater"
                /\ r[<<i, j>>] = "Equal" <=> v[i] = v[j]
                /\ (r[<<i, j>>] # "Greater" /\ r[<<j, k>>] # "Greater") => r[<<i, k>>] # "Greater"

\* Integer(1), Integer(2) and Null were compared: 1 < 2 < Null, Null = Null.
C8_Witness ==
    /\ astOut.kind = "values"
    /\ astIn.vals = <<Integer(1), Integer(2), Null>>
    /\ astOut.result[<<1, 2>>] = "Less"
    /\ astOut.result[<<2, 3>>] = "Less"
    /\ astOut.result[<<3, 1>>] = "Greater"
    /\ astOut.result[<<3, 3>>] = "Equal"

\* C9: a create_table call that returned an error ('already exists', or the
\* Factory's) left the registry as it found it; after the Factory's error the
\* name is still unregistered, and a later create_table for it is not turned
\* away as 'already exists'.
C9_FailedCreateLeavesRegistry ==
    \A i \in Creates :
        /\ log[i].ret.kind \in {"already_exists", "err"} => log[i].same
        /\ log[i].ret.kind = "err" =>
               /\ ~log[i].isReg
               /\ \A j \in Creates :
                      (/\ i < j
                       /\ log[j].name = log[i].name
                       /\ \A k \in OkCreates(log[i].name) : k > j)
                      => log[j].ret.kind # "already_exists"

\* A create_table failed in the Factory, and the next create_table for the same
\* name returned Ok; a third was then turned away without changing the registry.
C9_Witness ==
    /\ Len(log) = 3
    /\ Creates = DOMAIN log
    /\ \A i \in DOMAIN log : log[i].name = 2
    /\ log[1].ret = ErrFrom("factory_err")
    /\ log[2].ret = Ok
    /\ log[3].ret = ErrAlreadyExists(2)
    /\ log[3].same

\* C10: after a create_table call for a name returned Ok, the name stays
\* registered and mapped to the table that call built, through every later
\* create_table and insert call; no later insert for it returns 'no such table'.
C10_NameNeverReleased ==
    \A i \in Creates :
        log[i].ret = Ok =>
            /\ Entries(log[i].name) = {<<log[i].name, log[i].table>>}
            /\ \A j \in DOMAIN log :
                   (j > i /\ log[j].name = log[i].name) =>
                       /\ log[j].wasReg
                       /\ log[j].isReg
                       /\ log[j].op = "insert" =>
                              /\ log[j].ret.kind # "no_such_table"
                              /\ log[j].table = log[i].table
                       /\ log[j].op = "create_table" =>
                              log[j].ret = ErrAlreadyExists(log[i].name)

\* A name was claimed, a table was then created under another name, and a later
\* insert for the first name reached the table first built for it.
C10_Witness ==
    /\ Len(log) = 3
    /\ log[1].op = "create_table" /\ log[1].name = 1 /\ log[1].ret = Ok
    /\ log[2].op = "create_table" /\ log[2].name = 2 /\ log[2].ret = Ok
    /\ log[3].op = "insert" /\ log[3].name = 1 /\ log[3].ret = Ok
    /\ log[3].table = log[1].table
    /\ tables = {<<1, log[1].table>>, <<2, log[2].table>>}

\* C11: a thread that has reached insert_new (line 64) for a name finds the name
\* absent from the registry, so the registry never holds more than one table
\* under a name.
C11_InsertNewOnAbsentKey ==
    /\ \A t \in Threads :
           pc[t] \in {"ct_insert_new", "ct_find_free"} => ~contains_key(name[t])
    /\ \A n \in TableNames : Cardinality(Entries(n)) <= 1

\* C13: the second lookup of Database::insert (line 74) finds the name the first
\* lookup found: a thread between the two has its name registered, and no insert
\* call ends in a panic.
C13_SecondLookupFinds ==
    /\ \A t \in Threads : pc[t] \in {"ins_get_unwrap", "ins_table_insert"} =>
           /\ contains_key(name[t])
           /\ pc[t] = "ins_table_insert" => <<name[t], tbl[t]>> \in tables
    /\ \A i \in Inserts : log[i].ret.kind # "panic"

\* An insert ran through both lookups while a create_table call was registering
\* another name, and one thread stands between its two lookups.
C13_Witness ==
    /\ \E i \in Inserts : log[i].ret = Ok /\ log[i].added = 1
    /\ \E t \in Threads : pc[t] = "ins_get_unwrap"

\* A step of thread t that belongs to a Database::insert call: its entry, one of
\* its two lookups, or its Table::insert and return.
InsertStep(t) == pc'[t] # pc[t] /\ (pc[t] \in InsertPcs \/ pc'[t] \in InsertPcs)

\* C14: no step of a Database::insert call, whatever it returns, changes the
\* registry, and none enters Factory::new_table or has it build a table.
C14_InsertFrame ==
    [][\A t \in Threads :
           InsertStep(t) =>
               /\ tables' = tables
               /\ nextTable' = nextTable
               /\ inFactory' = inFactory
               /\ t \notin inFactory]_vars

\* Two inserts have returned on a registry of one table, one with Ok and one with
\* 'no such table', and the table is still the only one.
C14_Witness ==
    /\ Len(log) = 3
    /\ log[1].op = "create_table" /\ log[1].ret = Ok
    /\ \E i \in Inserts : log[i].ret = Ok
    /\ \E i \in Inserts : log[i].ret.kind = "no_such_table"
    /\ tables = {<<log[1].name, log[1].table>>}

\* Column i repeats the name of an earlier column.
RepeatsName(cols, i) == \E j \in 1..(i - 1) : cols[j].name = cols[i].name

\* Column i is a primary key and so is an earlier column.
RepeatsKey(cols, i) ==
    cols[i].is_primary_key /\ \E j \in 1..(i - 1) : cols[j].is_primary_key

\* The columns that offend, in either way.
Offending(cols) == {i \in DOMAIN cols : RepeatsName(cols, i) \/ RepeatsKey(cols, i)}

\* C15: TableSchema::validate reports the first offending column: 'duplicate
\* column name', with the column's name, when that column repeats an earlier name
\* (a second primary key or not), and 'more than one primary key', with the
\* table's name, when its name is new and it is a second primary key.
C15_FirstOffendingColumn ==
    astOut.kind = "schema" =>
        LET cols == astIn.schema.columns
            bad == Offending(cols)
        IN  bad # {} =>
                LET k == CHOOSE i \in bad : \A j \in bad : i <= j IN
                astOut.result = IF RepeatsName(cols, k)
                                THEN ErrDuplicateColumn(cols[k].name)
                                ELSE ErrPrimaryKeys(astIn.schema.name)

\* The third column is the first to offend, with an old name and a second
\* primary key at once: the duplicate name is what was reported.
C15_Witness ==
    /\ astOut.kind = "schema"
    /\ Len(astIn.schema.columns) = 3
    /\ Offending(astIn.schema.columns) = {3}
    /\ RepeatsName(astIn.schema.columns, 3)
    /\ RepeatsKey(astIn.schema.columns, 3)
    /\ astOut.result = ErrDuplicateColumn(astIn.schema.columns[3].name)

InCall(t) == pc[t] \notin {"idle", "panicked"}

=============================================================================
